---- MODULE Spec2Model ----
(***************************************************************************)
(* CPU scheduling simulator (main.go): main loads one process list and     *)
(* hands the same slice to FCFSSchedule, SJFSchedule, SJFPrioritySchedule  *)
(* and RRSchedule, in that order.  Each scheduler is modelled loop         *)
(* iteration by loop iteration; what it hands to outputGantt and           *)
(* outputSchedule is recorded in `out`.                                    *)
(*                                                                         *)
(* Go slices are 0-based, the sequences here are 1-based: a Go index k is  *)
(* k+1 here, so Go's `new := 0` is 1 and Go's `int64(current + 1)` is      *)
(* `current`.  A float64 quotient a / b is kept as the pair Ratio(a, b).   *)
(***************************************************************************)
EXTENDS Integers, Sequences, FiniteSets, TLC

VARIABLES
    input,      \* the list loadProcesses returned (never written afterwards)
    processes,  \* the slice shared by the four schedulers (same backing array)
    pc,         \* where main is
    fcfs,       \* locals of FCFSSchedule
    sjf,        \* locals of SJFSchedule
    sjfp,       \* locals of SJFPrioritySchedule (tProcess is pd, inc is current)
    rr,         \* locals of RRSchedule
    out         \* scheduler name -> what it handed to the output helpers

vars == <<input, processes, pc, fcfs, sjf, sjfp, rr, out>>

-----------------------------------------------------------------------------
(* Bounds of the explored inputs *)

MaxLen == 3          \* processes in a list
MaxWork == 4         \* sum of the bursts of a list
MaxArrival == 2      \* largest arrival time

\* The tick loops of SJFSchedule / SJFPrioritySchedule stop being explored here.
\* Every valid input of the bounds above (and the scenarios) ends before it.
MaxTime == MaxArrival + MaxWork + 6

-----------------------------------------------------------------------------
(* Types *)

Process(id, arrival, burst, priority) ==
    [ProcessID |-> id, ArrivalTime |-> arrival,
     BurstDuration |-> burst, Priority |-> priority]

TimeSlice(pid, start, stop) == [PID |-> pid, Start |-> start, Stop |-> stop]

ProcessData(w, t, e) == [waitingTime |-> w, turnaroundTime |-> t, exit |-> e]

\* One row of the schedule table (the []string of seven fmt.Sprint values).
Row(p, wait, turnaround, exit) ==
    [ID |-> p.ProcessID, Priority |-> p.Priority, Burst |-> p.BurstDuration,
     Arrival |-> p.ArrivalTime, Wait |-> wait, Turnaround |-> turnaround,
     Exit |-> exit]

\* float64(num) / float64(den), kept unevaluated
Ratio(num, den) == [num |-> num, den |-> den]

Output(gantt, schedule, wait, turnaround, throughput) ==
    [gantt |-> gantt, schedule |-> schedule, aveWait |-> wait,
     aveTurnaround |-> turnaround, aveThroughput |-> throughput]

-----------------------------------------------------------------------------
(* Helpers *)

RECURSIVE SumSeq(_)
SumSeq(s) == IF s = <<>> THEN 0 ELSE Head(s) + SumSeq(Tail(s))

MaxOf(S) == CHOOSE x \in S : \A y \in S : y <= x

Bursts(procs) == [i \in 1..Len(procs) |-> procs[i].BurstDuration]

-----------------------------------------------------------------------------
(* The process lists main can be given.  loadProcesses copies four integer *)
(* columns (id, burst, arrival, optional priority) into Process values and *)
(* validates nothing.                                                      *)

IdentityIds(n) == [i \in 1..n |-> i]
ReversedIds(n) == [i \in 1..n |-> n + 1 - i]

NoPriority(n) == [i \in 1..n |-> 0]          \* three-column rows: Priority stays 0
AscendingPriority(n) == [i \in 1..n |-> i - 1]
DescendingPriority(n) == [i \in 1..n |-> n - i]

\* The id and priority columns explored: ids in list order with every priority
\* pattern, and ids against list order.
Labels(n) ==
    { <<IdentityIds(n), NoPriority(n)>>,
      <<IdentityIds(n), AscendingPriority(n)>>,
      <<IdentityIds(n), DescendingPriority(n)>>,
      <<ReversedIds(n), NoPriority(n)>> }

\* Lists of n processes from the arrival vectors, burst vectors and labels given.
Lists(n, arrivals, bursts, labels) ==
    { [i \in 1..n |-> Process(l[1][i], a[i], b[i], l[2][i])] :
        a \in arrivals, b \in bursts, l \in labels }

\* Degenerate input: no process at all, or a process with burst <= 0.
DegenerateInput(procs) ==
    \/ Len(procs) = 0
    \/ \E i \in 1..Len(procs) : procs[i].BurstDuration <= 0

\* P1(arrival=0,burst=5), P2(arrival=1,burst=3), P3(arrival=2,burst=1)
ScenarioThree == <<Process(1, 0, 5, 0), Process(2, 1, 3, 0), Process(3, 2, 1, 0)>>

\* P1(arrival=0,burst=4), P2(arrival=0,burst=2)
ScenarioTwo == <<Process(1, 0, 4, 0), Process(2, 0, 2, 0)>>

ValidInputs ==
    {ScenarioThree, ScenarioTwo} \cup
    UNION { Lists(n, [1..n -> 0..MaxArrival],
                  { b \in [1..n -> 1..MaxWork] : SumSeq(b) <= MaxWork },
                  Labels(n)) : n \in 1..MaxLen }

DegenerateInputs ==
    {<<>>} \cup
    UNION { Lists(n, [1..n -> 0..1],
                  { b \in [1..n -> (-1)..1] : \E i \in 1..n : b[i] <= 0 },
                  {<<IdentityIds(n), NoPriority(n)>>}) : n \in 1..2 }

-----------------------------------------------------------------------------
(* FCFSSchedule *)

FCFSLocals ==
    [i |-> 1, serviceTime |-> 0, totalWait |-> 0, totalTurnaround |-> 0,
     lastCompletion |-> 0, waitingTime |-> 0, schedule |-> <<>>, gantt |-> <<>>]

\* FCFSWaiting with 0 for a zero-arrival process
FCFSWaitingResets(serviceTime, waitingTime, p) ==
    IF p.ArrivalTime > 0 THEN serviceTime - p.ArrivalTime ELSE 0

\* FCFSWaiting without the arrival subtracted
FCFSWaitingForgetsArrival(serviceTime, waitingTime, p) ==
    IF p.ArrivalTime > 0 THEN serviceTime ELSE waitingTime

\* The waiting time of one loop iteration: assigned only when the process's
\* arrival is > 0, otherwise the variable keeps the previous iteration's value.
FCFSWaiting(serviceTime, waitingTime, p) ==
    IF p.ArrivalTime > 0 THEN serviceTime - p.ArrivalTime ELSE waitingTime

FCFSBegin ==
    /\ pc = "fcfs_call"
    /\ fcfs' = FCFSLocals
    /\ pc' = "fcfs_loop"
    /\ UNCHANGED <<input, processes, sjf, sjfp, rr, out>>

\* One iteration of `for i := range processes`.
FCFSStep ==
    /\ pc = "fcfs_loop"
    /\ fcfs.i <= Len(processes)
    /\ LET p == processes[fcfs.i]
           waitingTime == FCFSWaiting(fcfs.serviceTime, fcfs.waitingTime, p)
           start == waitingTime + p.ArrivalTime
           turnaround == p.BurstDuration + waitingTime
           completion == p.BurstDuration + p.ArrivalTime + waitingTime
           serviceTime == fcfs.serviceTime + p.BurstDuration
       IN  fcfs' = [i |-> fcfs.i + 1,
                    serviceTime |-> serviceTime,
                    totalWait |-> fcfs.totalWait + waitingTime,
                    totalTurnaround |-> fcfs.totalTurnaround + turnaround,
                    lastCompletion |-> completion,
                    waitingTime |-> waitingTime,
                    schedule |-> Append(fcfs.schedule,
                                        Row(p, waitingTime, turnaround, completion)),
                    gantt |-> Append(fcfs.gantt,
                                     TimeSlice(p.ProcessID, start, serviceTime))]
    /\ UNCHANGED <<input, processes, pc, sjf, sjfp, rr, out>>

\* After the loop: the averages, then the three output calls.
FCFSOutput ==
    /\ pc = "fcfs_loop"
    /\ fcfs.i > Len(processes)
    /\ LET count == Len(processes)
       IN  out' = out @@ ("fcfs" :>
                 Output(fcfs.gantt, fcfs.schedule,
                        Ratio(fcfs.totalWait, count),
                        Ratio(fcfs.totalTurnaround, count),
                        Ratio(count, fcfs.lastCompletion)))
    /\ pc' = "sjf_call"
    /\ UNCHANGED <<input, processes, fcfs, sjf, sjfp, rr>>

-----------------------------------------------------------------------------
(* SJFSchedule and SJFPrioritySchedule: the same tick loop, with a         *)
(* different preemption test in the selection scan.                        *)

SJFLocals(procs) ==
    [temp |-> procs,                                   \* copy(temp, processes)
     pd |-> [i \in 1..Len(procs) |-> ProcessData(0, 0, 0)],
     time |-> 0, start |-> 0, current |-> 1, gantt |-> <<>>]

NotStarted == SJFLocals(<<>>)

noMoreProcesses(pd) == \A i \in DOMAIN pd : pd[i].exit # 0

\* RemainingAfterRun without the decrement
RemainingStuck(burst) == burst

\* temp[index].BurstDuration-- of the running process
RemainingAfterRun(burst) == burst - 1

\* Arrived counting the tick that ends at the arrival time
ArrivedInclusive(p, time) == p.ArrivalTime <= time

\* The gate of the first scan: temp[index].ArrivalTime < time
Arrived(p, time) == p.ArrivalTime < time

\* The first scan of a tick: every process with ArrivalTime < time either waits
\* (not current, not exited) or runs (current).  Yields temp, pd and swapped.
Accrue(s) ==
    LET n == Len(s.temp)
        arrived(index) == Arrived(s.temp[index], s.time)
        runs(index) == arrived(index) /\ index = s.current
        waits(index) == arrived(index) /\ index # s.current /\ s.pd[index].exit = 0
        temp == [index \in 1..n |->
                    IF runs(index)
                    THEN [s.temp[index] EXCEPT
                            !.BurstDuration = RemainingAfterRun(@)]
                    ELSE s.temp[index]]
        ends(index) == runs(index) /\ temp[index].BurstDuration = 0
        pd == [index \in 1..n |->
                    IF waits(index)
                    THEN [s.pd[index] EXCEPT !.waitingTime = @ + 1]
                    ELSE IF ends(index)
                         THEN [s.pd[index] EXCEPT !.exit = s.time]
                         ELSE s.pd[index]]
    IN  [temp |-> temp, pd |-> pd, swapped |-> \E index \in 1..n : ends(index)]

\* SJFPreempts with <= for <
SJFPreemptsOnTie(temp, index, current) ==
    \/ temp[index].BurstDuration <= temp[current].BurstDuration
    \/ temp[current].BurstDuration < 1

\* The test that makes `index` the new candidate in SJFSchedule ...
SJFPreempts(temp, index, current) ==
    \/ temp[index].BurstDuration < temp[current].BurstDuration
    \/ temp[current].BurstDuration < 1

\* SJFPriorityPreempts with >= for > on the priorities
SJFPriorityPreemptsAnyTie(temp, index, inc) ==
    \/ temp[index].BurstDuration < temp[inc].BurstDuration
    \/ temp[inc].BurstDuration < 1
    \/ /\ temp[index].BurstDuration = temp[inc].BurstDuration
       /\ temp[index].Priority >= temp[inc].Priority

\* SJFPriorityPreempts with the smaller priority value winning the tie
SJFPriorityPreemptsLowWins(temp, index, inc) ==
    \/ temp[index].BurstDuration < temp[inc].BurstDuration
    \/ temp[inc].BurstDuration < 1
    \/ /\ temp[index].BurstDuration = temp[inc].BurstDuration
       /\ temp[index].Priority < temp[inc].Priority

\* ... and in SJFPrioritySchedule.
SJFPriorityPreempts(temp, index, inc) ==
    \/ temp[index].BurstDuration < temp[inc].BurstDuration
    \/ temp[inc].BurstDuration < 1
    \/ /\ temp[index].BurstDuration = temp[inc].BurstDuration
       /\ temp[index].Priority > temp[inc].Priority

\* The second scan: the indexes that assign `new = index`.  The scan runs in
\* index order and every hit overwrites new, so the last hit stays.
\* byPriority tells the two functions apart: FALSE is SJFSchedule's test, TRUE
\* SJFPrioritySchedule's.
Candidates(procs, temp, pd, time, current, byPriority) ==
    { index \in 1..Len(procs) :
        /\ pd[index].exit = 0
        /\ procs[index].ArrivalTime <= time
        /\ IF byPriority THEN SJFPriorityPreempts(temp, index, current)
                         ELSE SJFPreempts(temp, index, current) }

\* One pass of the body of `for !noMoreProcesses(pd)`.
Tick(s, procs, byPriority) ==
    LET a == Accrue(s)
        hits == Candidates(procs, a.temp, a.pd, s.time, s.current, byPriority)
        new == IF hits = {} THEN 1 ELSE MaxOf(hits)
        swapped == a.swapped \/ hits # {}
    IN  [temp |-> a.temp,
         pd |-> a.pd,
         time |-> s.time + 1,
         start |-> IF swapped THEN s.time ELSE s.start,
         current |-> IF swapped THEN new ELSE s.current,
         gantt |-> IF swapped
                   THEN Append(s.gantt, TimeSlice(s.current, s.start, s.time))
                   ELSE s.gantt]

\* ReportedBurst reading the counted-down copy
RemainingBurst(s, procs, i) == s.temp[i].BurstDuration

\* The burst added to the waiting time for the turnaround column and sum:
\* processes[i].BurstDuration, the shared list's, not temp's.
ReportedBurst(s, procs, i) == procs[i].BurstDuration

\* The table rows and the averages computed after the tick loop.
TickOutput(s, procs) ==
    LET n == Len(procs)
        schedule == [i \in 1..n |->
                        Row(procs[i], s.pd[i].waitingTime,
                            s.pd[i].waitingTime + ReportedBurst(s, procs, i),
                            s.pd[i].exit)]
        waitingTime == SumSeq([i \in 1..n |-> s.pd[i].waitingTime])
        turnAroundTime ==
            SumSeq([i \in 1..n |-> s.pd[i].waitingTime + ReportedBurst(s, procs, i)])
    IN  Output(s.gantt, schedule, Ratio(waitingTime, n), Ratio(turnAroundTime, n),
               Ratio(n, s.time - 1))

SJFBegin ==
    /\ pc = "sjf_call"
    /\ sjf' = SJFLocals(processes)
    /\ pc' = "sjf_loop"
    /\ UNCHANGED <<input, processes, fcfs, sjfp, rr, out>>

SJFTick ==
    /\ pc = "sjf_loop"
    /\ ~noMoreProcesses(sjf.pd)
    /\ sjf.time < MaxTime
    /\ sjf' = Tick(sjf, processes, FALSE)
    /\ UNCHANGED <<input, processes, pc, fcfs, sjfp, rr, out>>

SJFOutput ==
    /\ pc = "sjf_loop"
    /\ noMoreProcesses(sjf.pd)
    /\ out' = out @@ ("sjf" :> TickOutput(sjf, processes))
    /\ pc' = "sjfp_call"
    /\ UNCHANGED <<input, processes, fcfs, sjf, sjfp, rr>>

SJFPriorityBegin ==
    /\ pc = "sjfp_call"
    /\ sjfp' = SJFLocals(processes)
    /\ pc' = "sjfp_loop"
    /\ UNCHANGED <<input, processes, fcfs, sjf, rr, out>>

SJFPriorityTick ==
    /\ pc = "sjfp_loop"
    /\ ~noMoreProcesses(sjfp.pd)
    /\ sjfp.time < MaxTime
    /\ sjfp' = Tick(sjfp, processes, TRUE)
    /\ UNCHANGED <<input, processes, pc, fcfs, sjf, rr, out>>

SJFPriorityOutput ==
    /\ pc = "sjfp_loop"
    /\ noMoreProcesses(sjfp.pd)
    /\ out' = out @@ ("sjfp" :> TickOutput(sjfp, processes))
    /\ pc' = "rr_call"
    /\ UNCHANGED <<input, processes, fcfs, sjf, sjfp, rr>>

-----------------------------------------------------------------------------
(* RRSchedule *)

val == 2    \* the quantum

\* Less comparing the wrong field
LessByBurst(p, q) == p.BurstDuration < q.BurstDuration

\* The less function given to sort.Slice.
Less(p, q) == p.ArrivalTime < q.ArrivalTime

\* sort.Slice(processes, less) sorts the shared slice in place and is not
\* guaranteed to be stable: any rearrangement in which no element is less than
\* one placed before it can be the result.
SortSlice(procs) ==
    IF Len(procs) = 0 THEN {procs}
    ELSE LET n == Len(procs)
             arranged == { [i \in 1..n |-> procs[f[i]]] : f \in Permutations(1..n) }
         IN  { q \in arranged : \A i, j \in 1..n : i < j => ~Less(q[j], q[i]) }

\* RRLocals with the clock starting at the first arrival
RRLocalsClockAtFirstArrival(procs) ==
    [timeLeft |-> Bursts(procs),
     currentTime |-> IF procs = <<>> THEN 0 ELSE procs[1].ArrivalTime,
     processData |-> [i \in 1..Len(procs) |-> ProcessData(0, 0, 0)],
     i |-> 1, done |-> TRUE, gantt |-> <<>>]

RRLocals(procs) ==
    [timeLeft |-> Bursts(procs),
     currentTime |-> 0,
     processData |-> [i \in 1..Len(procs) |-> ProcessData(0, 0, 0)],
     i |-> 1, done |-> TRUE, gantt |-> <<>>]

RRNotStarted == RRLocals(<<>>)

RRBegin ==
    /\ pc = "rr_call"
    /\ processes' \in SortSlice(processes)
    /\ rr' = RRLocals(processes')
    /\ pc' = "rr_loop"
    /\ UNCHANGED <<input, fcfs, sjf, sjfp, out>>

\* One iteration of the inner `for i := 0; i < n; i++`.
RRVisit ==
    /\ pc = "rr_loop"
    /\ rr.i <= Len(processes)
    /\ LET i == rr.i
           left == rr.timeLeft[i]
           currentTime == IF left > val THEN rr.currentTime + val
                          ELSE rr.currentTime + left
           switches == i > 1 /\ processes[i].ProcessID # processes[i - 1].ProcessID
       IN  IF left > 0
           THEN rr' = [rr EXCEPT
                    !.i = i + 1,
                    !.done = FALSE,
                    !.currentTime = currentTime,
                    !.timeLeft[i] = IF left > val THEN left - val ELSE 0,
                    !.processData[i].turnaroundTime =
                        IF left > val THEN @
                        ELSE currentTime - processes[i].ArrivalTime,
                    !.gantt = IF switches
                              THEN Append(@, TimeSlice(processes[i - 1].ProcessID,
                                                       currentTime - val, currentTime))
                              ELSE @]
           ELSE rr' = [rr EXCEPT !.i = i + 1]
    /\ UNCHANGED <<input, processes, pc, fcfs, sjf, sjfp, out>>

\* The end of a sweep that visited an unfinished process: sweep again.
RRSweepAgain ==
    /\ pc = "rr_loop"
    /\ rr.i > Len(processes)
    /\ ~rr.done
    /\ rr' = [rr EXCEPT !.i = 1, !.done = TRUE]
    /\ UNCHANGED <<input, processes, pc, fcfs, sjf, sjfp, out>>

\* The end of a sweep that found nothing to do: break, then the final slice,
\* the waiting times, the rows and the averages.
RROutput ==
    /\ pc = "rr_loop"
    /\ rr.i > Len(processes)
    /\ rr.done
    /\ LET n == Len(processes)
           gantt == IF n > 0
                    THEN Append(rr.gantt,
                                TimeSlice(processes[n].ProcessID,
                                          rr.currentTime - rr.timeLeft[n],
                                          rr.currentTime))
                    ELSE rr.gantt
           turnaround(i) == rr.processData[i].turnaroundTime
           waiting(i) == turnaround(i) - processes[i].BurstDuration
           schedule == [i \in 1..n |->
                           Row(processes[i], waiting(i), turnaround(i),
                               processes[i].ArrivalTime + turnaround(i))]
       IN  /\ rr' = [rr EXCEPT
                    !.gantt = gantt,
                    !.processData = [i \in 1..n |->
                                        [rr.processData[i] EXCEPT
                                            !.waitingTime = waiting(i)]]]
           /\ out' = out @@ ("rr" :>
                    Output(gantt, schedule,
                           Ratio(SumSeq([i \in 1..n |-> waiting(i)]), n),
                           Ratio(SumSeq([i \in 1..n |-> turnaround(i)]), n),
                           Ratio(n, rr.currentTime)))
    /\ pc' = "done"
    /\ UNCHANGED <<input, processes, fcfs, sjf, sjfp>>

-----------------------------------------------------------------------------
(* main *)

Loaded(lists) ==
    /\ input \in lists
    /\ processes = input
    /\ pc = "fcfs_call"
    /\ fcfs = FCFSLocals
    /\ sjf = NotStarted
    /\ sjfp = NotStarted
    /\ rr = RRNotStarted
    /\ out = <<>>

Init == Loaded(ValidInputs)

InitAnyInput == Loaded(ValidInputs \cup DegenerateInputs)

Next ==
    \/ FCFSBegin
    \/ FCFSStep
    \/ FCFSOutput
    \/ SJFBegin
    \/ SJFTick
    \/ SJFOutput
    \/ SJFPriorityBegin
    \/ SJFPriorityTick
    \/ SJFPriorityOutput
    \/ RRBegin
    \/ RRVisit
    \/ RRSweepAgain
    \/ RROutput

Spec == Init /\ [][Next]_vars

\* main is one sequential thread: whatever step is next is taken.
FairSpec == Spec /\ WF_vars(Next)

\* Any list the loader can return, degenerate ones included.
SpecAnyInput == InitAnyInput /\ [][Next]_vars

-----------------------------------------------------------------------------
(* What the claims are stated over *)

Ran(s) == s \in DOMAIN out

Waits(s) == [i \in 1..Len(out[s].schedule) |-> out[s].schedule[i].Wait]

Durations(gantt) == [k \in 1..Len(gantt) |-> gantt[k].Stop - gantt[k].Start]

IsRearrangement(p, q) ==
    /\ Len(p) = Len(q)
    /\ \E f \in Permutations(1..Len(p)) : \A i \in 1..Len(p) : q[i] = p[f[i]]

AscendingArrival(q) ==
    \A i, j \in 1..Len(q) : i < j => q[i].ArrivalTime <= q[j].ArrivalTime

\* k is the last slice of gantt that carries pid
LastSliceOf(gantt, pid, k) ==
    /\ gantt[k].PID = pid
    /\ \A m \in (k + 1)..Len(gantt) : gantt[m].PID # pid

-----------------------------------------------------------------------------
(* Claims *)

\* C1: on valid input every scheduler reports a waiting time >= 0 for every
\* process.
WaitingTimeNonNegative ==
    \A s \in DOMAIN out : \A i \in 1..Len(out[s].schedule) :
        out[s].schedule[i].Wait >= 0

\* C2: in the Gantt sequence of one scheduler run consecutive slices s, t have
\* s.Start <= t.Start and s.Stop <= t.Start.
GanttOrderedAndDisjoint ==
    \A s \in DOMAIN out : \A k \in 1..(Len(out[s].gantt) - 1) :
        /\ out[s].gantt[k].Start <= out[s].gantt[k + 1].Start
        /\ out[s].gantt[k].Stop <= out[s].gantt[k + 1].Start

\* C3: for FCFS, SJF and SJF-Priority the slice durations add up to the sum of
\* the input bursts.
GanttConservesWork ==
    \A s \in DOMAIN out \cap {"fcfs", "sjf", "sjfp"} :
        SumSeq(Durations(out[s].gantt)) = SumSeq(Bursts(input))

\* C4: for SJF, SJF-Priority and Round-Robin the exit time reported for a
\* process is the Stop of the last Gantt slice carrying its id.
ExitIsStopOfLastSlice ==
    \A s \in DOMAIN out \cap {"sjf", "sjfp", "rr"} :
        \A i \in 1..Len(out[s].schedule) :
            \E k \in 1..Len(out[s].gantt) :
                /\ LastSliceOf(out[s].gantt, out[s].schedule[i].ID, k)
                /\ out[s].gantt[k].Stop = out[s].schedule[i].Exit

\* C5: on valid input every scheduler run ends: main reaches its end, and there
\* the tick loops of SJF and SJF-Priority have left every process with
\* exit # 0 and the sweep loop of Round-Robin every remaining time at 0.
SchedulersTerminate ==
    <>( /\ pc = "done"
        /\ noMoreProcesses(sjf.pd)
        /\ noMoreProcesses(sjfp.pd)
        /\ \A i \in 1..Len(processes) : rr.timeLeft[i] = 0 )

\* C5 witness: a finished run in which every loop had work to do.
AllLoopsRanToTheEnd ==
    /\ pc = "done"
    /\ Len(input) = MaxLen
    /\ sjf.time > MaxLen /\ noMoreProcesses(sjf.pd)
    /\ sjfp.time > MaxLen /\ noMoreProcesses(sjfp.pd)
    /\ rr.currentTime = SumSeq(Bursts(input))
    /\ \A i \in 1..Len(processes) : rr.timeLeft[i] = 0

\* C6: a degenerate input (no process, or a burst <= 0) is rejected: no
\* scheduler produces a schedule or statistics for it, and no tick loop runs on.
DegenerateInputRejected ==
    DegenerateInput(input) =>
        /\ DOMAIN out = {}
        /\ sjf.time = 0
        /\ sjfp.time = 0

\* C7: the shared list changes only when Round-Robin sorts it, after the other
\* three schedulers have run; the change is a rearrangement (no field value
\* changes) into ascending arrival order.
SharedListOnlySortedByRR ==
    [][ processes' # processes =>
            /\ pc = "rr_call"
            /\ {"fcfs", "sjf", "sjfp"} \subseteq DOMAIN out
            /\ IsRearrangement(processes, processes')
            /\ AscendingArrival(processes') ]_vars

\* C7 witness: Round-Robin has reordered the list, and the preemptive
\* schedulers have counted their private copies down while the shared bursts
\* are those of the input.
SharedListReordered ==
    /\ pc = "done"
    /\ ~AscendingArrival(input)
    /\ processes # input
    /\ IsRearrangement(input, processes)
    /\ AscendingArrival(processes)
    /\ \A i \in 1..Len(input) : sjf.temp[i].BurstDuration < input[i].BurstDuration
    /\ \A i \in 1..Len(input) : sjfp.temp[i].BurstDuration < input[i].BurstDuration
    /\ \A i \in 1..Len(input) : \E j \in 1..Len(input) :
            processes[j] = input[i] /\ processes[j].BurstDuration > 0

\* C8 as stated: P1(0,5), P2(1,3), P3(2,1) under FCFS wait 0, 4 and 7, in
\* total 11 over 3 processes.
ScenarioThreeWaitsAsStated ==
    (input = ScenarioThree /\ Ran("fcfs")) =>
        /\ Waits("fcfs") = <<0, 4, 7>>
        /\ out["fcfs"].aveWait = Ratio(11, 3)

\* C8 amended: they wait 0, 4 and 6, in total 10 over 3 processes.
ScenarioThreeWaits ==
    (input = ScenarioThree /\ Ran("fcfs")) =>
        /\ Waits("fcfs") = <<0, 4, 6>>
        /\ out["fcfs"].aveWait = Ratio(10, 3)

\* C8 witness
ScenarioThreeServed == input = ScenarioThree /\ Ran("fcfs")

\* C9: a single process gets exactly one Gantt slice and waiting time 0 from
\* every scheduler, and from FCFS the slice [arrival, arrival + burst].
SingleProcessOneSlice ==
    Len(input) = 1 =>
        \A s \in DOMAIN out :
            /\ Len(out[s].gantt) = 1
            /\ Waits(s) = <<0>>
            /\ s = "fcfs" =>
                  /\ out[s].gantt[1].Start = input[1].ArrivalTime
                  /\ out[s].gantt[1].Stop =
                        input[1].ArrivalTime + input[1].BurstDuration

\* C10: P1(0,4), P2(0,2) under Round-Robin give the slices P1 [0,2], P2 [2,4],
\* P1 [4,6].
ScenarioTwoInterleaved ==
    (input = ScenarioTwo /\ Ran("rr")) =>
        out["rr"].gantt = <<TimeSlice(1, 0, 2), TimeSlice(2, 2, 4), TimeSlice(1, 4, 6)>>


\* The burst the input gave to the process with this id
OriginalBurst(id) ==
    input[CHOOSE j \in 1..Len(input) : input[j].ProcessID = id].BurstDuration

\* C11: in every scheduler's rows turnaround = waiting + the process's input
\* burst (for Round-Robin waiting = turnaround - input burst), whatever the
\* private copies have been counted down to.
TurnaroundUsesOriginalBurst ==
    \A s \in DOMAIN out : \A i \in 1..Len(out[s].schedule) :
        LET row == out[s].schedule[i]
        IN  /\ row.Burst = OriginalBurst(row.ID)
            /\ row.Turnaround = row.Wait + OriginalBurst(row.ID)
            /\ row.Wait = row.Turnaround - OriginalBurst(row.ID)

\* C11 witness: all four have reported, the copies are counted down to zero or
\* below, and some process was preempted in SJF.
ReportedAfterCountdown ==
    /\ pc = "done"
    /\ \A i \in 1..Len(input) :
          sjf.temp[i].BurstDuration <= 0 /\ sjfp.temp[i].BurstDuration <= 0
    /\ \E k \in 1..Len(sjf.gantt) : \E i \in 1..Len(input) :
          sjf.gantt[k].PID = i /\ sjf.pd[i].exit > sjf.gantt[k].Stop
              /\ sjf.gantt[k].Stop > sjf.gantt[k].Start
              /\ input[i].ArrivalTime <= sjf.gantt[k].Start


\* The processes that have arrived by the tick an SJF-style loop last ran (the
\* clock has been advanced past it) and have not exited.
Ready(s) ==
    { i \in 1..Len(processes) :
        processes[i].ArrivalTime <= s.time - 1 /\ s.pd[i].exit = 0 }

\* A tick of the loop has run
Ticked(s) == s.time > 0

\* C12: after the selection step of every SJFSchedule tick, if some process has
\* arrived and is unfinished, the current process is one of them and none of
\* them has a smaller remaining burst.
SJFRunsShortestRemaining ==
    (pc = "sjf_loop" /\ Ticked(sjf) /\ Ready(sjf) # {}) =>
        /\ sjf.current \in Ready(sjf)
        /\ \A j \in Ready(sjf) :
              sjf.temp[sjf.current].BurstDuration <= sjf.temp[j].BurstDuration


\* The account of process i in an SJF-style loop: once exited, waiting plus
\* input burst is exit minus arrival; while it runs or waits, waiting plus the
\* burst consumed is the time since it arrived; before that, nothing.
Accounted(s, i) ==
    LET t == s.time - 1
        consumed == input[i].BurstDuration - s.temp[i].BurstDuration
    IN  IF s.pd[i].exit # 0
        THEN s.pd[i].waitingTime + input[i].BurstDuration
                = s.pd[i].exit - input[i].ArrivalTime
        ELSE IF input[i].ArrivalTime <= t
             THEN s.pd[i].waitingTime + consumed = t - input[i].ArrivalTime
             ELSE s.pd[i].waitingTime = 0 /\ consumed = 0

\* C13: in SJF and SJF-Priority the reported turnaround (waiting + input
\* burst) is exit - arrival for every process; tick by tick, every process
\* between its arrival and its exit either waits one unit or runs one unit.
TurnaroundIsExitMinusArrival ==
    /\ \A s \in DOMAIN out \cap {"sjf", "sjfp"} :
          \A i \in 1..Len(out[s].schedule) :
              out[s].schedule[i].Turnaround =
                  out[s].schedule[i].Exit - out[s].schedule[i].Arrival
    /\ \A i \in 1..Len(sjf.temp) : Accounted(sjf, i)
    /\ \A i \in 1..Len(sjfp.temp) : Accounted(sjfp, i)

\* C13 witness: both have reported a process that arrived after time 0 and
\* had to wait.
LateArrivalWaited ==
    \A s \in {"sjf", "sjfp"} :
        /\ Ran(s)
        /\ \E i \in 1..Len(out[s].schedule) :
              /\ out[s].schedule[i].Arrival > 0
              /\ out[s].schedule[i].Wait > 0


\* The step from s to t closes a slice, and the slice carries the ProcessID of
\* the process that was current in s.
ClosesSliceOfCurrent(s, t) ==
    Len(t.gantt) > Len(s.gantt) =>
        t.gantt[Len(t.gantt)].PID = processes[s.current].ProcessID

\* C14: every Gantt slice SJF and SJF-Priority emit carries the ProcessID of
\* the process that was current during it, whatever the (unique, positive) ids.
SliceCarriesProcessID ==
    [][ ClosesSliceOfCurrent(sjf, sjf') /\ ClosesSliceOfCurrent(sjfp, sjfp') ]_vars


\* C15: in a tick of SJFSchedule whose current process still has remaining
\* burst >= 1 when the selection scan runs (that is, after its own decrement),
\* the current process changes only to one with strictly smaller remaining
\* burst.
SJFTieNeverPreempts ==
    [][ ( /\ pc = "sjf_loop"
          /\ sjf'.time = sjf.time + 1
          /\ sjf'.temp[sjf.current].BurstDuration >= 1
          /\ sjf'.current # sjf.current )
        => sjf'.temp[sjf'.current].BurstDuration
              < sjf'.temp[sjf.current].BurstDuration ]_vars

\* C15 witness: the last tick left the current process in place although a
\* ready process has the same remaining burst.
SJFTieKeptCurrent ==
    /\ pc = "sjf_loop"
    /\ Ticked(sjf)
    /\ sjf.start < sjf.time - 1
    /\ sjf.current \in Ready(sjf)
    /\ sjf.temp[sjf.current].BurstDuration >= 1
    /\ \E j \in Ready(sjf) \ {sjf.current} :
          sjf.temp[j].BurstDuration = sjf.temp[sjf.current].BurstDuration


\* j beats i in SJF-Priority: strictly smaller remaining burst, or the same
\* remaining burst and a strictly greater priority value.
Beats(temp, j, i) ==
    \/ temp[j].BurstDuration < temp[i].BurstDuration
    \/ /\ temp[j].BurstDuration = temp[i].BurstDuration
       /\ temp[j].Priority > temp[i].Priority

\* C16: in a tick of SJFPrioritySchedule whose current process has remaining
\* burst >= 1 at the selection scan, (a) if an arrived unfinished process has
\* the same remaining burst and a strictly greater priority, the current
\* process is switched out, and (b) whenever it is switched out, the new
\* current process has strictly smaller remaining burst, or the same and a
\* strictly greater priority.
PriorityTieBreak ==
    [][ ( /\ pc = "sjfp_loop"
          /\ sjfp'.time = sjfp.time + 1
          /\ sjfp'.temp[sjfp.current].BurstDuration >= 1 )
        => /\ ( \E j \in Ready(sjfp') :
                  /\ sjfp'.temp[j].BurstDuration
                        = sjfp'.temp[sjfp.current].BurstDuration
                  /\ sjfp'.temp[j].Priority > sjfp'.temp[sjfp.current].Priority )
              => sjfp'.current # sjfp.current
           /\ sjfp'.current # sjfp.current
              => Beats(sjfp'.temp, sjfp'.current, sjfp.current) ]_vars

\* C16 witness: the last tick switched from a process with remaining burst
\* >= 1 (the one the closed slice names) to one with the same remaining burst
\* and a greater priority.
SwitchedOnPriority ==
    /\ pc = "sjfp_loop"
    /\ Ticked(sjfp)
    /\ sjfp.start = sjfp.time - 1
    /\ sjfp.gantt # <<>>
    /\ LET old == sjfp.gantt[Len(sjfp.gantt)].PID
       IN  /\ old # sjfp.current
           /\ sjfp.temp[old].BurstDuration >= 1
           /\ sjfp.temp[sjfp.current].BurstDuration = sjfp.temp[old].BurstDuration
           /\ sjfp.temp[sjfp.current].Priority > sjfp.temp[old].Priority


\* The priority condition holds for some index the selection scan of the tick
\* starting in s looks at: arrived, not exited, same remaining burst as the
\* current process, strictly greater priority.
TieFires(s) ==
    LET a == Accrue(s)
    IN  \E index \in 1..Len(input) :
            /\ a.pd[index].exit = 0
            /\ input[index].ArrivalTime <= s.time
            /\ a.temp[index].BurstDuration = a.temp[s.current].BurstDuration
            /\ a.temp[index].Priority > a.temp[s.current].Priority

\* The priority condition holds in one of the first k ticks SJF-Priority runs
\* from s.
RECURSIVE TieFiredIn(_, _)
TieFiredIn(s, k) ==
    IF k = 0 THEN FALSE
    ELSE TieFires(s) \/ TieFiredIn(Tick(s, input, TRUE), k - 1)

\* The locals of SJFSchedule after k ticks on the input.
RECURSIVE SJFAfter(_)
SJFAfter(k) ==
    IF k = 0 THEN SJFLocals(input) ELSE Tick(SJFAfter(k - 1), input, FALSE)

TieNeverFired == ~TieFiredIn(SJFLocals(input), sjfp.time)

AllPrioritiesEqual ==
    \A i, j \in 1..Len(input) : input[i].Priority = input[j].Priority

\* The run of SJFPrioritySchedule has ended without the priority condition
\* ever firing: it hands over what SJFSchedule handed over.
SamePlanAtTheEnd ==
    (pc = "rr_call" /\ TieNeverFired) =>
        /\ sjfp = sjf
        /\ out["sjfp"] = out["sjf"]

\* With all priorities equal SJFPrioritySchedule is after every tick in the
\* state SJFSchedule was in after as many ticks.
SamePlanOnEqualPriorities ==
    /\ pc = "sjfp_call" => sjf = SJFAfter(sjf.time)
    /\ (pc = "sjfp_loop" /\ AllPrioritiesEqual) =>
          /\ ~TieFires(sjfp)
          /\ sjfp.time <= sjf.time
          /\ sjfp = SJFAfter(sjfp.time)

\* A tick of SJFPrioritySchedule in which the priority condition does not
\* fire is the tick SJFSchedule makes from the same locals.
SameTickUnlessTieFires ==
    (pc = "sjfp_loop" /\ pc' = "sjfp_loop" /\ ~TieFires(sjfp)) =>
        sjfp' = Tick(sjfp, input, FALSE)

\* C17: SJF-Priority differs from SJF only through the priority condition:
\* a tick in which it does not fire is SJF's tick, on an input on which it
\* never fires both hand over the same Gantt sequence, rows and averages, and
\* with all priorities equal the two runs agree tick for tick.
SamePlanUnlessTieFires ==
    /\ [](SamePlanAtTheEnd /\ SamePlanOnEqualPriorities)
    /\ [][SameTickUnlessTieFires]_vars

\* C17 witness: both have reported, the priorities differ, the condition never
\* fired, and a process was kept waiting.
SamePlanDespitePriorities ==
    /\ Ran("sjfp")
    /\ ~AllPrioritiesEqual
    /\ TieNeverFired
    /\ \E i \in 1..Len(input) : out["sjfp"].schedule[i].Wait > 0


\* The sum of the bursts of the processes before position i in input order:
\* the value of serviceTime when FCFSSchedule reaches position i.
ServiceTimeBefore(i) == SumSeq(SubSeq(Bursts(input), 1, i - 1))

\* C18: FCFSSchedule reports max(0, serviceTime - arrival) as the waiting time
\* of every process with arrival > 0.
FCFSWaitIsClamped ==
    Ran("fcfs") =>
        \A i \in 1..Len(input) :
            input[i].ArrivalTime > 0 =>
                out["fcfs"].schedule[i].Wait =
                    MaxOf({0, ServiceTimeBefore(i) - input[i].ArrivalTime})

\* C19: FCFSSchedule reports for a process with arrival 0 the waiting time of
\* the process before it in input order, and 0 for the first process.
FCFSZeroArrivalInheritsWait ==
    Ran("fcfs") =>
        \A i \in 1..Len(input) :
            input[i].ArrivalTime = 0 =>
                out["fcfs"].schedule[i].Wait =
                    IF i = 1 THEN 0 ELSE out["fcfs"].schedule[i - 1].Wait

\* C19 witness: a zero-arrival process behind a process that waited is
\* reported with that wait although more service time has accumulated.
FCFSInheritedWait ==
    /\ Ran("fcfs")
    /\ \E i \in 2..Len(input) :
           /\ input[i].ArrivalTime = 0
           /\ out["fcfs"].schedule[i - 1].Wait > 0
           /\ out["fcfs"].schedule[i].Wait = out["fcfs"].schedule[i - 1].Wait
           /\ out["fcfs"].schedule[i].Wait < ServiceTimeBefore(i)


TotalBurst == SumSeq(Bursts(input))

RRSweeping == pc = "rr_loop" \/ Ran("rr")

\* At every point of the sweep the clock plus the remaining times is the sum
\* of the input bursts, and each remaining time is within 0..burst.
RRClockConservesWork ==
    RRSweeping =>
        /\ rr.currentTime + SumSeq(rr.timeLeft) = TotalBurst
        /\ \A i \in 1..Len(processes) :
               /\ 0 <= rr.timeLeft[i]
               /\ rr.timeLeft[i] <= processes[i].BurstDuration

\* On termination the clock is the sum of the bursts and no process completes
\* after it.
RREndsAtTotalBurst ==
    Ran("rr") =>
        /\ rr.currentTime = TotalBurst
        /\ \A i \in 1..Len(processes) :
               out["rr"].schedule[i].Arrival + out["rr"].schedule[i].Turnaround
                   <= TotalBurst

\* A visit to an unfinished process moves min(remaining, 2) from its remaining
\* time to the clock and leaves the other remaining times alone.
RRVisitConsumesQuantum ==
    (pc = "rr_loop" /\ rr.i <= Len(processes) /\ rr'.i = rr.i + 1
        /\ rr.timeLeft[rr.i] > 0) =>
        LET used == IF rr.timeLeft[rr.i] < 2 THEN rr.timeLeft[rr.i] ELSE 2
        IN  /\ rr'.currentTime = rr.currentTime + used
            /\ rr'.timeLeft = [rr.timeLeft EXCEPT ![rr.i] = @ - used]

\* C20: RRSchedule conserves work on the clock: currentTime plus the remaining
\* times is the sum of the input bursts with every remaining time in
\* 0..burst, a visit to an unfinished process consumes min(remaining, 2), and
\* on termination currentTime is the sum of the bursts and bounds every
\* completion time arrival + turnaround.
RRConservesWorkOnClock ==
    /\ [](RRClockConservesWork /\ RREndsAtTotalBurst)
    /\ [][RRVisitConsumesQuantum]_vars

\* C20 witness: the sweep has ended after cutting a burst into a full quantum
\* and a shorter rest, with a process completing before the end.
RRSweptInQuanta ==
    /\ Ran("rr")
    /\ \E i \in 1..Len(processes) : processes[i].BurstDuration > 2
    /\ \E i \in 1..Len(processes) :
           out["rr"].schedule[i].Arrival + out["rr"].schedule[i].Turnaround
               < TotalBurst

====
